---- MODULE Spec2Model ----
(***************************************************************************)
(* Model of extract_outline.py: the PDF outline extractor.  A document is  *)
(* what the PDF renderer supplies (page count, metadata title, built-in    *)
(* TOC, per page blocks -> lines -> spans); extract_outline runs over it   *)
(* step by step.                                                           *)
(*                                                                         *)
(* Texts are sequences of one-character strings.  Font sizes are integers  *)
(* in hundredths of a point (11.04pt is 1104); vertical positions are      *)
(* integers.  A confidence is kept as its numerator over max_score.        *)
(***************************************************************************)
EXTENDS Integers, Sequences, FiniteSets, TLC

\* ------------------------------------------------------------------------
\* Characters and Python's str methods
\* ------------------------------------------------------------------------
UpperSeq ==
  <<"A","B","C","D","E","F","G","H","I","J","K","L","M",
    "N","O","P","Q","R","S","T","U","V","W","X","Y","Z">>

LowerSeq ==
  <<"a","b","c","d","e","f","g","h","i","j","k","l","m",
    "n","o","p","q","r","s","t","u","v","w","x","y","z">>

DigitChars == {"0","1","2","3","4","5","6","7","8","9"}

Whitespace == {" "}

IsUpperChar(c) == \E i \in DOMAIN UpperSeq : UpperSeq[i] = c

IsLowerChar(c) == \E i \in DOMAIN LowerSeq : LowerSeq[i] = c

IsCased(c) == IsUpperChar(c) \/ IsLowerChar(c)

IsWordChar(c) == IsCased(c) \/ c \in DigitChars \/ c = "_"

LowerChar(c) ==
  IF IsUpperChar(c)
  THEN LowerSeq[CHOOSE i \in DOMAIN UpperSeq : UpperSeq[i] = c]
  ELSE c

\* str.lower()
Lower(s) == [i \in DOMAIN s |-> LowerChar(s[i])]

RECURSIVE LStrip(_)
LStrip(s) ==
  IF s # <<>> /\ Head(s) \in Whitespace THEN LStrip(Tail(s)) ELSE s

RECURSIVE RStrip(_)
RStrip(s) ==
  IF s # <<>> /\ s[Len(s)] \in Whitespace
  THEN RStrip(SubSeq(s, 1, Len(s) - 1))
  ELSE s

\* str.strip()
Strip(s) == RStrip(LStrip(s))

\* len(text.split()): the number of maximal runs of non-whitespace
WordCount(s) ==
  Cardinality({i \in DOMAIN s :
                 /\ s[i] \notin Whitespace
                 /\ (i = 1 \/ s[i - 1] \in Whitespace)})

\* str.isupper(): a cased character exists and none is lowercase
IsUpper(s) ==
  /\ \E i \in DOMAIN s : IsCased(s[i])
  /\ \A i \in DOMAIN s : ~IsLowerChar(s[i])

\* str.istitle(): uppercase only after uncased, lowercase only after cased
IsTitle(s) ==
  /\ \E i \in DOMAIN s : IsCased(s[i])
  /\ \A i \in DOMAIN s :
       LET prev_cased == i > 1 /\ IsCased(s[i - 1])
       IN  /\ IsUpperChar(s[i]) => ~prev_cased
           /\ IsLowerChar(s[i]) => prev_cased

\* str.isdigit()
IsDigit(s) == s # <<>> /\ \A i \in DOMAIN s : s[i] \in DigitChars

\* text.rstrip().endswith('.')
EndsWithPeriod(s) ==
  LET r == RStrip(s) IN r # <<>> /\ r[Len(r)] = "."

\* a in b  (substring)
Contains(b, a) ==
  \E k \in 0..(Len(b) - Len(a)) : SubSeq(b, k + 1, k + Len(a)) = a

\* " ".join(parts)
RECURSIVE Join(_)
Join(parts) ==
  IF parts = <<>> THEN <<>>
  ELSE IF Len(parts) = 1 THEN parts[1]
  ELSE parts[1] \o <<" ">> \o Join(Tail(parts))

\* ------------------------------------------------------------------------
\* The heading pattern of is_line_a_heading, as sets of match positions
\* ------------------------------------------------------------------------
Keywords ==
  { <<"A","p","p","e","n","d","i","x">>,
    <<"C","h","a","p","t","e","r">>,
    <<"S","e","c","t","i","o","n">> }

\* positions after \d{1,2} from a position of P
Digits12(s, P) ==
  { q \in 1..Len(s) :
      \E p \in P : /\ q - p \in {1, 2}
                   /\ \A i \in (p + 1)..q : s[i] \in DigitChars }

\* positions after one literal character c
Lit(s, P, c) == { q \in 1..Len(s) : (q - 1) \in P /\ s[q] = c }

\* positions after \s+
Spaces(s, P) ==
  { q \in 1..Len(s) :
      \E p \in P : p < q /\ \A i \in (p + 1)..q : s[i] \in Whitespace }

\* positions after (\.\d{1,2})*
RECURSIVE DotDigitsStar(_, _)
DotDigitsStar(s, P) ==
  LET Q == P \cup Digits12(s, Lit(s, P, "."))
  IN  IF Q = P THEN P ELSE DotDigitsStar(s, Q)

NumberedEnd(s) ==
  LET P == DotDigitsStar(s, Digits12(s, {0})) IN P \cup Lit(s, P, ".")

LetterEnd(s) ==
  IF Len(s) >= 2 /\ IsUpperChar(s[1]) /\ s[2] = "." THEN {2} ELSE {}

KeywordEnd(s) ==
  LET K == { Len(k) : k \in { k \in Keywords :
                                Len(s) >= Len(k) /\ SubSeq(s, 1, Len(k)) = k } }
      W == Spaces(s, K)
  IN  { q \in 1..Len(s) : (q - 1) \in W /\ IsWordChar(s[q]) }

\* re.match(r"^((\d{1,2}(\.\d{1,2})*\.?)|([A-Z]\.)|(Appendix|Chapter|Section)\s+[\w\d])\s+", s)
MatchesHeadingPattern(s) ==
  Spaces(s, NumberedEnd(s) \cup LetterEnd(s) \cup KeywordEnd(s)) # {}

\* ------------------------------------------------------------------------
\* Numbers
\* ------------------------------------------------------------------------
\* round(num/den) to the nearest multiple of step, ties to the even multiple
RoundTo(num, den, step) ==
  LET d    == den * step
      q    == num \div d
      rem2 == 2 * (num - q * d)
  IN  IF rem2 > d \/ (rem2 = d /\ q % 2 = 1) THEN (q + 1) * step ELSE q * step

\* round(x, 1) of a size in hundredths
Round1(size) == RoundTo(size, 1, 10)

RECURSIVE Sum(_)
Sum(xs) == IF xs = <<>> THEN 0 ELSE Head(xs) + Sum(Tail(xs))

RECURSIVE Flatten(_)
Flatten(ss) == IF ss = <<>> THEN <<>> ELSE Head(ss) \o Flatten(Tail(ss))

Range(xs) == { xs[i] : i \in DOMAIN xs }

RECURSIVE InsertNum(_, _)
InsertNum(sorted, x) ==
  IF sorted = <<>> THEN <<x>>
  ELSE IF x < Head(sorted) THEN <<x>> \o sorted
  ELSE <<Head(sorted)>> \o InsertNum(Tail(sorted), x)

RECURSIVE SortNums(_)
SortNums(xs) ==
  IF xs = <<>> THEN <<>>
  ELSE InsertNum(SortNums(SubSeq(xs, 1, Len(xs) - 1)), xs[Len(xs)])

\* statistics.median, in hundredths
Median(xs) ==
  LET s == SortNums(xs)
      n == Len(s)
  IN  IF n % 2 = 1 THEN s[(n + 1) \div 2]
      ELSE (s[n \div 2] + s[n \div 2 + 1]) \div 2

\* statistics.stdev squared, as <<numerator, denominator>> in hundredths^2
VarianceOf(xs) ==
  LET n == Len(xs)
      sq == [i \in DOMAIN xs |-> xs[i] * xs[i]]
  IN  <<n * Sum(sq) - Sum(xs) * Sum(xs), n * (n - 1)>>

\* ------------------------------------------------------------------------
\* get_text_characteristics
\* ------------------------------------------------------------------------
get_text_characteristics(text) ==
  IF text = <<>>
  THEN [is_all_caps |-> FALSE, is_title_case |-> FALSE,
        ends_with_period |-> FALSE, word_count |-> 0, char_count |-> 0]
  ELSE [is_all_caps      |-> IsUpper(text) /\ WordCount(text) > 0,
        is_title_case    |-> IsTitle(text) /\ ~IsUpper(text),
        ends_with_period |-> EndsWithPeriod(text),
        word_count       |-> WordCount(text),
        char_count       |-> Len(text)]

\* ------------------------------------------------------------------------
\* is_line_a_heading: [is_heading, confidence], the confidence being the
\* numerator of score / max_score
\* ------------------------------------------------------------------------
max_score == 20

Rejected == [is_heading |-> FALSE, confidence |-> 0]

Max0(x) == IF x > 0 THEN x ELSE 0

is_line_a_heading(line_text, line_size, is_bold, is_standalone, body_stats) ==
  LET tc       == get_text_characteristics(line_text)
      is_large == line_size > body_stats.median_size + 50
      score ==
          (IF is_bold THEN 6 ELSE 0)
        + (IF is_large THEN 4 ELSE 0)
        + (IF line_size > body_stats.median_size + 250 THEN 2 ELSE 0)
        + (IF tc.is_all_caps /\ tc.word_count < 10 THEN 3 ELSE 0)
        + (IF tc.is_title_case THEN 2 ELSE 0)
        + (IF is_standalone THEN 2 ELSE 0)
        + (IF MatchesHeadingPattern(line_text) THEN 5 ELSE 0)
        - (IF tc.ends_with_period THEN 3 ELSE 0)
        - (IF tc.word_count = 1 /\ ~is_large /\ ~tc.is_all_caps THEN 2 ELSE 0)
        - (IF tc.word_count > 15 THEN 2 ELSE 0)
      normalized_score == Max0(score)
  IN  IF line_text = <<>> \/ IsDigit(line_text) THEN Rejected
      ELSE IF tc.word_count > 25 THEN Rejected
      ELSE IF tc.ends_with_period /\ tc.word_count > 5 THEN Rejected
      ELSE IF ~is_bold /\ ~is_large /\ ~tc.is_all_caps THEN Rejected
      ELSE [is_heading |-> 100 * normalized_score >= 35 * max_score,
            confidence |-> normalized_score]

\* ------------------------------------------------------------------------
\* The documents checked
\* ------------------------------------------------------------------------
MaxPages == 2

MaxBlocks == 2

PageHeight == 100

Span(text, size, bold) == [text |-> text, size |-> size, bold |-> bold]

Line(spans, y) == [spans |-> spans, y |-> y]

TextBlock(top, bottom, in_content, lines) ==
  [type |-> 0, top |-> top, bottom |-> bottom, in_content |-> in_content,
   lines |-> lines]

T_Results == <<"R","e","s","u","l","t","s">>

T_Sentence == <<"a"," ","c","a","t"," ","s","a","t"," ","o","n"," ","a"," ","m","a","t",".">>

\* one bold line at 16pt
BResults ==
  TextBlock(10, 12, TRUE, << Line(<<Span(T_Results, 1596, TRUE)>>, 10) >>)

\* a paragraph of four plain 12pt sentences
BPara ==
  TextBlock(30, 75, TRUE,
    << Line(<<Span(T_Sentence, 1204, FALSE)>>, 30),
       Line(<<Span(T_Sentence, 1204, FALSE)>>, 40),
       Line(<<Span(T_Sentence, 1204, FALSE)>>, 50),
       Line(<<Span(T_Sentence, 1204, FALSE)>>, 60) >>)

\* a numbered all-caps heading and a two-span, majority-bold line
BNum ==
  TextBlock(20, 28, TRUE,
    << Line(<<Span(<<"1",".","2"," ","I","N","T","R","O">>, 1700, TRUE)>>, 20),
       Line(<<Span(<<"A","n","n","u","a","l"," ">>, 1300, TRUE), Span(<<"r","e">>, 1296, FALSE)>>, 25) >>)

\* a tall block: two plain large lines far apart
BTwo ==
  TextBlock(12, 55, TRUE,
    << Line(<<Span(<<"M","e","t","h","o","d","s"," ","A","n","d"," ","D","a","t","a">>, 1480, FALSE)>>, 12),
       Line(<<Span(<<"S","e","c","t","i","o","n"," ","2"," ","D","a","t","a">>, 1320, FALSE)>>, 50) >>)

\* three lines inside the content area, the first without spans
BEmptyFirst ==
  TextBlock(35, 44, TRUE,
    << Line(<<>>, 35),
       Line(<<Span(<<" ">>, 1204, TRUE)>>, 38),
       Line(<<Span(<<"F","A","Q">>, 1204, FALSE)>>, 41) >>)

\* a footer outside the content area: no spans, an empty span, a bold line
BFooter ==
  TextBlock(92, 98, FALSE,
    << Line(<<>>, 92),
       Line(<<Span(<<>>, 1204, FALSE)>>, 94),
       Line(<<Span(<<"P","a","g","e"," ","2"," ","O","f"," ","9">>, 1204, TRUE)>>, 96) >>)

\* an image block: it has no lines
BImage ==
  [type |-> 1, top |-> 50, bottom |-> 58, in_content |-> TRUE, lines |-> <<>>]

\* a purely numeric line in large bold type
BYear ==
  TextBlock(8, 9, TRUE, << Line(<<Span(<<"2","0","2","4">>, 2000, TRUE)>>, 8) >>)

\* a paragraph-like block with mixed sizes, a lettered bold line, a 24.5pt line
BNote ==
  TextBlock(15, 29, TRUE,
    << Line(<<Span(<<"N","o","t","e"," ","a"," ","b"," ","c">>, 1104, FALSE), Span(<<"x">>, 696, FALSE)>>, 15),
       Line(<<Span(<<"B","."," ","S","c","o","p","e"," ","h","e","r","e">>, 1104, TRUE)>>, 20),
       Line(<<Span(<<"A","n","d"," ","M","o","r","e"," ","W","o","r","d","s"," ","H","e","r","e",".">>, 2450, FALSE)>>, 25) >>)

BlockNames ==
  { "Results", "Para", "Num", "Two", "EmptyFirst", "Footer", "Image", "Year", "Note" }

BlockOf(name) ==
  CASE name = "Results"    -> BResults
    [] name = "Para"       -> BPara
    [] name = "Num"        -> BNum
    [] name = "Two"        -> BTwo
    [] name = "EmptyFirst" -> BEmptyFirst
    [] name = "Footer"     -> BFooter
    [] name = "Image"      -> BImage
    [] name = "Year"       -> BYear
    [] name = "Note"       -> BNote

TitleMenu == { <<>>, <<"X">>, <<" ","A","n","n","u","a","l"," ","R","E","S","U","L","T","S"," ">>, <<"I","n","t","r","o">> }

TocEntry(level, text, page) == [level |-> level, text |-> text, page |-> page]

TocMixed ==
  << TocEntry(1, <<" ","I","n","t","r","o"," ">>, 2), TocEntry(4, <<"D","e","e","p">>, 2),
     TocEntry(2, T_Results, 1), TocEntry(2, T_Results, 1) >>

TocDeep == << TocEntry(4, <<"D","e","e","p">>, 2), TocEntry(0, <<"C","o","v","e","r">>, 1) >>

TocMenu == { <<>>, TocMixed, TocDeep }

BaseName == <<"a",".","p","d","f">>

Untitled == <<"U","n","t","i","t","l","e","d">>

OpenError == <<"F","a","i","l","e","d"," ","t","o"," ","o","p","e","n"," ","P","D","F">>

\* a placed block: which block of the menu, on which page
Placed(name, page) == [name |-> name, page |-> page]

\* sort=True: within a page the renderer orders blocks by their bottom edge
RenderOrder(layout) ==
  \A i \in 1..(Len(layout) - 1) :
    \/ layout[i].page < layout[i + 1].page
    \/ /\ layout[i].page = layout[i + 1].page
       /\ BlockOf(layout[i].name).bottom <= BlockOf(layout[i + 1].name).bottom

Placements(page_count) ==
  { Placed(name, page) : name \in BlockNames, page \in 1..page_count }

Layouts(page_count) ==
  { layout \in UNION { [1..n -> Placements(page_count)] : n \in 0..MaxBlocks } :
      RenderOrder(layout) }

MakeDoc(n, t, toc, layout) ==
  [openable |-> TRUE, page_count |-> n, page_height |-> PageHeight,
   metadata_title |-> t, toc |-> toc, layout |-> layout, basename |-> BaseName]

\* a file fitz.open cannot open
BadDoc ==
  [openable |-> FALSE, page_count |-> 0, page_height |-> PageHeight,
   metadata_title |-> <<>>, toc |-> <<>>, layout |-> <<>>, basename |-> BaseName]

\* the blocks of the document, each with its page
Blocks(d) ==
  [i \in DOMAIN d.layout |->
     LET b == BlockOf(d.layout[i].name)
     IN  [page |-> d.layout[i].page, type |-> b.type, top |-> b.top,
          bottom |-> b.bottom, in_content |-> b.in_content, lines |-> b.lines]]

\* ------------------------------------------------------------------------
\* What the renderer supplies for a page
\* ------------------------------------------------------------------------
\* page.get_text("dict", sort=True)["blocks"] of page page_num (1-based)
PageBlocks(d, page_num) ==
  SelectSeq(Blocks(d), LAMBDA b : b.page = page_num)

\* page.get_text("dict", clip=content_rect)["blocks"]
ClippedBlocks(d, page_num) ==
  SelectSeq(Blocks(d), LAMBDA b : b.page = page_num /\ b.in_content)

Min(a, b) == IF a < b THEN a ELSE b

\* ------------------------------------------------------------------------
\* analyze_document_style
\* std_dev is kept as its square, <<numerator, denominator>> in hundredths^2:
\* 1.5 is <<22500, 1>> and 1.0 is <<10000, 1>>.
\* ------------------------------------------------------------------------
StyleBlocks(d) ==
  Flatten([p \in 1..Min(5, d.page_count) |-> ClippedBlocks(d, p)])

\* block['lines'][0]['spans'][0] on a first line without spans: IndexError
StyleRaises(d) ==
  \E i \in DOMAIN StyleBlocks(d) :
    LET block == StyleBlocks(d)[i]
    IN  /\ block.type = 0
        /\ Len(block.lines) > 2
        /\ block.lines[1].spans = <<>>

LooksLikeParagraph(block) ==
  /\ block.type = 0
  /\ Len(block.lines) > 2
  /\ WordCount(block.lines[1].spans[1].text) > 3

BlockSizes(block) ==
  LET spans == Flatten([i \in DOMAIN block.lines |-> block.lines[i].spans])
      sizes == [i \in DOMAIN spans |-> Round1(spans[i].size)]
  IN  SelectSeq(sizes, LAMBDA s : 700 <= s /\ s <= 2400)

analyze_document_style(d) ==
  LET blocks == SelectSeq(StyleBlocks(d), LooksLikeParagraph)
      font_sizes == Flatten([i \in DOMAIN blocks |-> BlockSizes(blocks[i])])
  IN  IF font_sizes = <<>>
      THEN [median_size |-> 1100, std_dev_sq |-> <<22500, 1>>]
      ELSE [median_size |-> Median(font_sizes),
            std_dev_sq  |-> IF Cardinality(Range(font_sizes)) > 1
                            THEN VarianceOf(font_sizes)
                            ELSE <<10000, 1>>]

\* ------------------------------------------------------------------------
\* extract_outline, step 1: title from metadata or first prominent text
\* ------------------------------------------------------------------------
\* mutant: the 4-to-14-word rule instead of the character count
IsTitleCandidate_FourWords(text) == WordCount(text) > 3 /\ WordCount(text) < 15

IsTitleCandidate(text) == Len(text) > 3 /\ WordCount(text) < 15

BlockTitleCandidates(block) ==
  LET lines == SelectSeq(block.lines, LAMBDA l : l.spans # <<>>)
      cands == [i \in DOMAIN lines |->
                  LET span == lines[i].spans[1]
                  IN  [score |-> span.size + (IF span.bold THEN 200 ELSE 0),
                       text  |-> Strip(span.text)]]
  IN  SelectSeq(cands, LAMBDA c : IsTitleCandidate(c.text))

TitleBlocks(d) ==
  SelectSeq(PageBlocks(d, 1),
            LAMBDA b : b.type = 0 /\ 2 * b.top < d.page_height)

TitleCandidates(d) ==
  Flatten([i \in DOMAIN TitleBlocks(d) |-> BlockTitleCandidates(TitleBlocks(d)[i])])

\* max(candidates, key=lambda item: item[0])[1]: the first of the maxima
MaxCandidate(cands) ==
  LET i == CHOOSE i \in DOMAIN cands :
             /\ \A j \in DOMAIN cands : cands[j].score <= cands[i].score
             /\ \A j \in 1..(i - 1) : cands[j].score < cands[i].score
  IN  cands[i].text

\* mutant: any non-empty metadata title is accepted
MetadataAccepted_NonEmpty(d) == Len(Strip(d.metadata_title)) >= 1

MetadataAccepted(d) == Len(Strip(d.metadata_title)) >= 5

ResolvedTitle(d) ==
  IF MetadataAccepted(d) THEN Strip(d.metadata_title)
  ELSE IF TitleCandidates(d) # <<>> THEN MaxCandidate(TitleCandidates(d))
  ELSE d.basename

\* ------------------------------------------------------------------------
\* step 2: golden path, the built-in table of contents
\* ------------------------------------------------------------------------
LevelName(n) == <<"H1", "H2", "H3">>[n]

TocLevelKept(level) == 1 <= level /\ level <= 3

\* mutant: the TOC text is copied without strip()
TocOutline_NoStrip(toc) ==
  LET kept == SelectSeq(toc, LAMBDA e : TocLevelKept(e.level))
  IN  [i \in DOMAIN kept |->
         [level |-> LevelName(kept[i].level),
          text  |-> kept[i].text,
          page  |-> kept[i].page]]

TocOutline(toc) ==
  LET kept == SelectSeq(toc, LAMBDA e : TocLevelKept(e.level))
  IN  [i \in DOMAIN kept |->
         [level |-> LevelName(kept[i].level),
          text  |-> Strip(kept[i].text),
          page  |-> kept[i].page]]

\* mutant: any non-empty TOC returns
TocReturns_AnyToc(toc) == toc # <<>>

\* if toc: ... if outline: return
TocReturns(toc) == toc # <<>> /\ TocOutline(toc) # <<>>

\* ------------------------------------------------------------------------
\* step 3: the heading candidate scanner
\* ------------------------------------------------------------------------
LineText(line) ==
  Strip(Join([i \in DOMAIN line.spans |-> line.spans[i].text]))

AvgSize(line) ==
  RoundTo(Sum([i \in DOMAIN line.spans |-> line.spans[i].size]),
          Len(line.spans), 10)

BoldCharCount(line) ==
  Sum([i \in DOMAIN line.spans |->
         IF line.spans[i].bold THEN Len(line.spans[i].text) ELSE 0])

IsLineBold(line) ==
  LineText(line) # <<>> /\ 2 * BoldCharCount(line) > Len(LineText(line))

IsStandalone(block) == Len(block.lines) <= 2

\* every line the scanner classifies, in scan order, with the classifier's answer
ScanBlock(block, stats) ==
  LET lines == SelectSeq(block.lines, LAMBDA l : l.spans # <<>>)
  IN  [i \in DOMAIN lines |->
         LET r == is_line_a_heading(LineText(lines[i]), AvgSize(lines[i]),
                                    IsLineBold(lines[i]), IsStandalone(block), stats)
         IN  [text       |-> LineText(lines[i]),
              size       |-> AvgSize(lines[i]),
              page       |-> block.page,
              y_pos      |-> lines[i].y,
              is_bold    |-> IsLineBold(lines[i]),
              is_heading |-> r.is_heading,
              confidence |-> r.confidence]]

ScanDocument(d, stats) ==
  LET blocks == SelectSeq(Flatten([p \in 1..d.page_count |-> PageBlocks(d, p)]),
                          LAMBDA b : b.type = 0)
  IN  Flatten([i \in DOMAIN blocks |-> ScanBlock(blocks[i], stats)])

Candidate(s) ==
  [text |-> s.text, size |-> s.size, page |-> s.page,
   y_pos |-> s.y_pos, is_bold |-> s.is_bold]

PotentialHeadings(scanned) ==
  LET kept == SelectSeq(scanned, LAMBDA s : s.is_heading)
  IN  [i \in DOMAIN kept |-> Candidate(kept[i])]

\* ------------------------------------------------------------------------
\* the visual-signature leveler
\* ------------------------------------------------------------------------
\* (h['is_bold'], round(h['size'] * 2) / 2)
get_visual_signature(h) ==
  [is_bold |-> h.is_bold, size_bucket |-> RoundTo(h.size, 1, 50)]

\* mutant: the larger bucket first, then bold
MoreProminent_SizeFirst(s, t) ==
  \/ s.size_bucket > t.size_bucket
  \/ s.size_bucket = t.size_bucket /\ s.is_bold /\ ~t.is_bold

\* the sort key (-s[0], -s[1]): bold first, then the larger bucket
MoreProminent(s, t) ==
  \/ s.is_bold /\ ~t.is_bold
  \/ s.is_bold = t.is_bold /\ s.size_bucket > t.size_bucket

Signatures(headings) == { get_visual_signature(headings[i]) : i \in DOMAIN headings }

\* the 1-based position of sig in unique_signatures
SignatureRank(sig, sigs) ==
  1 + Cardinality({ t \in sigs : MoreProminent(t, sig) })

\* level_map.get(sig): "" stands for None
level_map(sig, sigs) ==
  IF SignatureRank(sig, sigs) <= 3 THEN LevelName(SignatureRank(sig, sigs)) ELSE ""

LeveledOutline(headings) ==
  LET sigs  == Signatures(headings)
      kept  == SelectSeq(headings,
                 LAMBDA h : level_map(get_visual_signature(h), sigs) # "")
  IN  [i \in DOMAIN kept |->
         [level |-> level_map(get_visual_signature(kept[i]), sigs),
          text  |-> kept[i].text,
          page  |-> kept[i].page,
          y_pos |-> kept[i].y_pos]]

\* ------------------------------------------------------------------------
\* the outline assembler
\* ------------------------------------------------------------------------
\* the sort key (x['page'], x['y_pos'])
KeyLess(a, b) == a.page < b.page \/ (a.page = b.page /\ a.y_pos < b.y_pos)

RECURSIVE InsertEntry(_, _)
InsertEntry(sorted, x) ==
  IF sorted = <<>> THEN <<x>>
  ELSE IF KeyLess(x, Head(sorted)) THEN <<x>> \o sorted
  ELSE <<Head(sorted)>> \o InsertEntry(Tail(sorted), x)

\* mutant: the outline is left in scan order
SortOutline_None(o) == o

\* outline.sort(key=...): stable
RECURSIVE SortOutline(_)
SortOutline(o) ==
  IF o = <<>> THEN <<>>
  ELSE InsertEntry(SortOutline(SubSeq(o, 1, Len(o) - 1)), o[Len(o)])

\* mutant: the page is not compared
IsRepeat_TextOnly(o, i) == i > 1 /\ o[i].text = o[i - 1].text

IsRepeat(o, i) ==
  i > 1 /\ o[i].text = o[i - 1].text /\ o[i].page = o[i - 1].page

Public(e) == [level |-> e.level, text |-> e.text, page |-> e.page]

KeptIndices(o) == { i \in DOMAIN o : ~IsRepeat(o, i) }

RECURSIVE PickIndices(_, _, _)
PickIndices(o, I, i) ==
  IF i > Len(o) THEN <<>>
  ELSE (IF i \in I THEN <<Public(o[i])>> ELSE <<>>) \o PickIndices(o, I, i + 1)

\* the duplicate check against last_text / last_page
RemoveDuplicates(o) == PickIndices(o, KeptIndices(o), 1)

\* mutant: the comparison keeps the letter case
RepeatsTitle_CaseSensitive(text, t) == Contains(t, text)

RepeatsTitle(text, t) == Contains(Lower(t), Lower(text))

\* cleaned_outline.pop(0) when the first heading repeats the title
SuppressTitle(cleaned, t) ==
  IF cleaned # <<>> /\ RepeatsTitle(cleaned[1].text, t) THEN Tail(cleaned) ELSE cleaned

\* ------------------------------------------------------------------------
\* extract_outline as a state machine
\* ------------------------------------------------------------------------
VARIABLES
  doc,                \* the input document
  pc,                 \* where extract_outline is
  title,
  body_stats,
  scanned,            \* every line classified, with is_heading and confidence
  potential_headings,
  outline,
  cleaned_outline,
  result              \* what extract_outline returned, or the exception raised

vars ==
  <<doc, pc, title, body_stats, scanned, potential_headings, outline,
    cleaned_outline, result>>

\* body_stats before analyze_document_style has run
NoStats == [median_size |-> 0, std_dev_sq |-> <<0, 1>>]

NoResult == [kind |-> "none", title |-> <<>>, outline |-> <<>>]

Returned(t, o) == [kind |-> "ok", title |-> t, outline |-> o]

ReturnedError == [kind |-> "error", title |-> OpenError, outline |-> <<>>]

Raised == [kind |-> "raised", title |-> <<>>, outline |-> <<>>]

\* A file that does not open has no content; a document without pages has no
\* page for an outline item to point to, so it comes with an empty TOC.
Init ==
  /\ \/ doc = BadDoc
     \/ \E t \in TitleMenu : doc = MakeDoc(0, t, <<>>, <<>>)
     \/ \E n \in 1..MaxPages, t \in TitleMenu, toc \in TocMenu :
          \E layout \in Layouts(n) : doc = MakeDoc(n, t, toc, layout)
  /\ pc = "open"
  /\ title = <<>>
  /\ body_stats = NoStats
  /\ scanned = <<>>
  /\ potential_headings = <<>>
  /\ outline = <<>>
  /\ cleaned_outline = <<>>
  /\ result = NoResult

\* fitz.open fails: return {"error": ...}
OpenFails ==
  /\ pc = "open"
  /\ ~doc.openable
  /\ pc' = "done"
  /\ result' = ReturnedError
  /\ UNCHANGED <<doc, title, body_stats, scanned, potential_headings, outline,
                 cleaned_outline>>

\* page_count == 0: return {"title": "Untitled", "outline": []}
EmptyDocument ==
  /\ pc = "open"
  /\ doc.openable
  /\ doc.page_count = 0
  /\ pc' = "done"
  /\ result' = Returned(Untitled, <<>>)
  /\ UNCHANGED <<doc, title, body_stats, scanned, potential_headings, outline,
                 cleaned_outline>>

\* 1. title from metadata or first prominent text
ResolveTitle ==
  /\ pc = "open"
  /\ doc.openable
  /\ doc.page_count > 0
  /\ title' = ResolvedTitle(doc)
  /\ pc' = "toc"
  /\ UNCHANGED <<doc, body_stats, scanned, potential_headings, outline,
                 cleaned_outline, result>>

\* 2. golden path: return the TOC's outline when it is not empty
GoldenPath ==
  /\ pc = "toc"
  /\ outline' = (IF doc.toc # <<>> THEN TocOutline(doc.toc) ELSE <<>>)
  /\ IF TocReturns(doc.toc)
     THEN pc' = "done" /\ result' = Returned(title, outline')
     ELSE pc' = "style" /\ result' = result
  /\ UNCHANGED <<doc, title, body_stats, scanned, potential_headings,
                 cleaned_outline>>

\* 3. body_stats = analyze_document_style(doc)
AnalyzeStyle ==
  /\ pc = "style"
  /\ IF StyleRaises(doc)
     THEN pc' = "done" /\ result' = Raised /\ body_stats' = body_stats
     ELSE pc' = "scan" /\ result' = result
          /\ body_stats' = analyze_document_style(doc)
  /\ UNCHANGED <<doc, title, scanned, potential_headings, outline,
                 cleaned_outline>>

\* the scan of every page, block and line
ScanHeadings ==
  /\ pc = "scan"
  /\ scanned' = ScanDocument(doc, body_stats)
  /\ potential_headings' = PotentialHeadings(scanned')
  /\ IF potential_headings' = <<>>
     THEN pc' = "done" /\ result' = Returned(title, <<>>)
     ELSE pc' = "level" /\ result' = result
  /\ UNCHANGED <<doc, title, body_stats, outline, cleaned_outline>>

\* rank the signatures and assign levels
AssignLevels ==
  /\ pc = "level"
  /\ outline' = LeveledOutline(potential_headings)
  /\ pc' = "sort"
  /\ UNCHANGED <<doc, title, body_stats, scanned, potential_headings,
                 cleaned_outline, result>>

\* outline.sort(key=lambda x: (x['page'], x['y_pos']))
SortStep ==
  /\ pc = "sort"
  /\ outline' = SortOutline(outline)
  /\ pc' = "dedup"
  /\ UNCHANGED <<doc, title, body_stats, scanned, potential_headings,
                 cleaned_outline, result>>

\* duplicate removal
DedupStep ==
  /\ pc = "dedup"
  /\ cleaned_outline' = RemoveDuplicates(outline)
  /\ pc' = "suppress"
  /\ UNCHANGED <<doc, title, body_stats, scanned, potential_headings, outline,
                 result>>

\* drop a first heading that repeats the title, and return
SuppressStep ==
  /\ pc = "suppress"
  /\ cleaned_outline' = SuppressTitle(cleaned_outline, title)
  /\ result' = Returned(title, cleaned_outline')
  /\ pc' = "done"
  /\ UNCHANGED <<doc, title, body_stats, scanned, potential_headings, outline>>

Next ==
  \/ OpenFails
  \/ EmptyDocument
  \/ ResolveTitle
  \/ GoldenPath
  \/ AnalyzeStyle
  \/ ScanHeadings
  \/ AssignLevels
  \/ SortStep
  \/ DedupStep
  \/ SuppressStep

Spec == Init /\ [][Next]_vars

\* ------------------------------------------------------------------------
\* Properties
\* ------------------------------------------------------------------------
Done == pc = "done"

\* extract_outline returned from the golden path or earlier: nothing of the
\* heuristic path has run
HeuristicsNeverRan ==
  /\ body_stats = NoStats
  /\ scanned = <<>>
  /\ potential_headings = <<>>
  /\ cleaned_outline = <<>>
  /\ result.kind # "raised"

\* the heuristic path was entered
HeuristicsEntered ==
  \/ pc \in {"style", "scan", "level", "sort", "dedup", "suppress"}
  \/ body_stats # NoStats
  \/ result.kind = "raised"

\* extract_outline returned after the final cleanup
ReturnedAssembled ==
  Done /\ result.kind = "ok" /\ potential_headings # <<>>

H1Results == [level |-> "H1", text |-> T_Results, page |-> 1]

\* the end-to-end document: one page, no TOC, the bold "Results" line in the
\* upper half and the four-sentence paragraph below it
EndToEndDoc ==
  /\ doc.openable
  /\ doc.page_count = 1
  /\ doc.toc = <<>>
  /\ doc.layout = << Placed("Results", 1), Placed("Para", 1) >>

SameLetter(a, b) ==
  a = b \/ \E i \in DOMAIN UpperSeq : {a, b} = {UpperSeq[i], LowerSeq[i]}

\* text occurs in t, letter case ignored
OccursIgnoringCase(text, t) ==
  \E k \in 0..(Len(t) - Len(text)) :
    \A j \in 1..Len(text) : SameLetter(text[j], t[k + j])

\* raw without its leading and trailing blanks
Trimmed(raw) ==
  LET I == { i \in DOMAIN raw : raw[i] # " " }
  IN  IF I = {} THEN <<>>
      ELSE SubSeq(raw, CHOOSE i \in I : \A j \in I : i <= j,
                       CHOOSE i \in I : \A j \in I : j <= i)

\* C1 (as stated): the end-to-end document with metadata title "X" yields
\* title "X" and the outline [H1 "Results" page 1].
C1_Original ==
  (Done /\ EndToEndDoc /\ doc.metadata_title = <<"X">>)
    => result = Returned(<<"X">>, <<H1Results>>)

\* C1 (amended): for the end-to-end document a metadata title is kept only when
\* it has at least 5 characters after trimming; the outline is then
\* [H1 "Results" page 1] unless the title contains "results" (case ignored), in
\* which case it is empty.  With a shorter title such as "X" the title is the
\* most prominent upper-half line, "Results", and the outline is empty.
C1_EndToEnd ==
  (Done /\ EndToEndDoc) =>
    LET meta == Trimmed(doc.metadata_title)
    IN  IF Len(meta) >= 5
        THEN result = Returned(meta, IF OccursIgnoringCase(T_Results, meta)
                                     THEN <<>> ELSE <<H1Results>>)
        ELSE result = Returned(T_Results, <<>>)

C1_Witness ==
  /\ Done /\ EndToEndDoc
  /\ doc.metadata_title = <<"X">>
  /\ result = Returned(T_Results, <<>>)

UsableTocIndices == { i \in DOMAIN doc.toc : doc.toc[i].level \in {1, 2, 3} }

LevelString(n) == CASE n = 1 -> "H1" [] n = 2 -> "H2" [] n = 3 -> "H3"

\* the k-th outline entry is the k-th TOC entry with level in 1..3
MirrorsToc(o) ==
  /\ Len(o) = Cardinality(UsableTocIndices)
  /\ \A i \in UsableTocIndices :
       LET k == Cardinality({ j \in UsableTocIndices : j <= i })
       IN  o[k] = [level |-> LevelString(doc.toc[i].level),
                   text  |-> Trimmed(doc.toc[i].text),
                   page  |-> doc.toc[i].page]

C4_ConfidenceInUnitInterval ==
  \A i \in DOMAIN scanned :
    0 <= scanned[i].confidence /\ scanned[i].confidence <= max_score

\* the multiple of 0.5pt nearest to a size, both in hundredths of a point
NearestHalfPoint(size) == CHOOSE b \in (size - 24)..(size + 24) : b % 50 = 0

StyleOf(h) == <<h.is_bold, NearestHalfPoint(h.size)>>

Styles == { StyleOf(potential_headings[i]) : i \in DOMAIN potential_headings }

\* bold before non-bold, then the larger size first
Outranks(s, t) == (s[1] /\ ~t[1]) \/ (s[1] = t[1] /\ s[2] > t[2])

StyleRank(s) == 1 + Cardinality({ t \in Styles : Outranks(t, s) })

TopThree ==
  { i \in DOMAIN potential_headings : StyleRank(StyleOf(potential_headings[i])) <= 3 }

\* C5: the level of an entry is the rank of its (is_bold, size to the nearest
\* 0.5) signature among the candidates' distinct signatures, bold first then
\* larger first: rank 1 is H1, 2 is H2, 3 is H3, and a candidate ranked 4th or
\* lower gets no entry; with exactly 2 distinct signatures there is no H3.
C5_LevelIsSignatureRank ==
  /\ pc = "sort" =>
       /\ Len(outline) = Cardinality(TopThree)
       /\ \A i \in TopThree :
            LET k == Cardinality({ j \in TopThree : j <= i })
                h == potential_headings[i]
            IN  outline[k] = [level |-> LevelString(StyleRank(StyleOf(h))),
                              text |-> h.text, page |-> h.page, y_pos |-> h.y_pos]
  /\ ReturnedAssembled =>
       /\ \A k \in DOMAIN result.outline :
            \E i \in TopThree :
              LET h == potential_headings[i]
              IN  result.outline[k] = [level |-> LevelString(StyleRank(StyleOf(h))),
                                       text |-> h.text, page |-> h.page]
       /\ Cardinality(Styles) = 2 =>
            \A k \in DOMAIN result.outline : result.outline[k].level # "H3"

C5_Witness ==
  /\ ReturnedAssembled
  /\ Cardinality(Styles) >= 4
  /\ TopThree # DOMAIN potential_headings
  /\ \E k \in DOMAIN result.outline : result.outline[k].level = "H3"

InReadingOrder(o) ==
  \A i \in 1..(Len(o) - 1) :
    \/ o[i].page < o[i + 1].page
    \/ o[i].page = o[i + 1].page /\ o[i].y_pos <= o[i + 1].y_pos

WithoutPosition(e) == [level |-> e.level, text |-> e.text, page |-> e.page]

\* a is b with some entries left out, the rest in b's order
RECURSIVE IsSubsequence(_, _)
IsSubsequence(a, b) ==
  IF a = <<>> THEN TRUE
  ELSE IF b = <<>> THEN FALSE
  ELSE IF Head(a) = Head(b) THEN IsSubsequence(Tail(a), Tail(b))
  ELSE IsSubsequence(a, Tail(b))

\* C6: the returned heuristic outline is in reading order: its entries are
\* accepted source lines taken in order of (page, y_pos), so page numbers never
\* decrease and entries of one page come in ascending vertical position; this
\* holds after duplicate removal and title suppression.
C6_ReadingOrder ==
  ReturnedAssembled =>
    /\ InReadingOrder(outline)
    /\ \A i \in DOMAIN outline :
         \E j \in DOMAIN potential_headings :
           /\ outline[i].text = potential_headings[j].text
           /\ outline[i].page = potential_headings[j].page
           /\ outline[i].y_pos = potential_headings[j].y_pos
    /\ IsSubsequence(result.outline, [i \in DOMAIN outline |-> WithoutPosition(outline[i])])
    /\ \A k \in 1..(Len(result.outline) - 1) :
         result.outline[k].page <= result.outline[k + 1].page

C6_Witness ==
  /\ ReturnedAssembled
  /\ ~InReadingOrder(potential_headings)
  /\ Len(result.outline) >= 2
  /\ result.outline[1].page = result.outline[2].page
  /\ Len(result.outline) < Len(outline)

\* the first entries of the maximal runs of equal (text, page) in the sorted outline
RunStarts ==
  { i \in DOMAIN outline :
      i = 1 \/ outline[i - 1].text # outline[i].text
            \/ outline[i - 1].page # outline[i].page }

NthRunStart(k) ==
  CHOOSE i \in RunStarts : Cardinality({ j \in RunStarts : j <= i }) = k

Collapsed ==
  [k \in 1..Cardinality(RunStarts) |-> WithoutPosition(outline[NthRunStart(k)])]

NoAdjacentRepeat(o) ==
  \A k \in 1..(Len(o) - 1) :
    o[k].text # o[k + 1].text \/ o[k].page # o[k + 1].page

\* C7: after sorting, every run of consecutive leveled candidates with the
\* same (text, page) collapses to its first entry, an equal text on another
\* page is kept, and the returned outline has no two adjacent entries with
\* the same text and page.
C7_RunsCollapse ==
  /\ pc = "suppress" => cleaned_outline = Collapsed /\ NoAdjacentRepeat(cleaned_outline)
  /\ ReturnedAssembled => NoAdjacentRepeat(result.outline)

C7_Witness ==
  /\ pc = "suppress"
  /\ Len(cleaned_outline) < Len(outline)
  /\ cleaned_outline # <<>>

\* C8: if the first entry after sorting and duplicate removal has a text that
\* occurs in the title, case ignored, exactly that entry is removed and the
\* later entries stay unchanged and in order; otherwise nothing is removed.
C8_TitleSuppression ==
  ReturnedAssembled =>
    result.outline =
      IF Collapsed # <<>> /\ OccursIgnoringCase(Collapsed[1].text, result.title)
      THEN Tail(Collapsed)
      ELSE Collapsed

C8_Witness ==
  /\ ReturnedAssembled
  /\ Len(Collapsed) >= 2
  /\ result.outline = Tail(Collapsed)
  /\ ~Contains(result.title, Collapsed[1].text)

\* the metadata title is absent or shorter than 5 characters after trimming
NoMetadataTitle == Len(Trimmed(doc.metadata_title)) < 5

UpperHalfBlocks ==
  { i \in DOMAIN Blocks(doc) :
      /\ Blocks(doc)[i].page = 1
      /\ Blocks(doc)[i].type = 0
      /\ 2 * Blocks(doc)[i].top < doc.page_height }

FirstSpan(i, j) == Blocks(doc)[i].lines[j].spans[1]

Prominence(i, j) == FirstSpan(i, j).size + (IF FirstSpan(i, j).bold THEN 200 ELSE 0)

\* C9 (as stated): the first lines of upper-half blocks whose text has
\* between 4 and 14 words
FirstLinesOfFourWords ==
  { <<i, 1>> : i \in { i \in UpperHalfBlocks :
      /\ Blocks(doc)[i].lines # <<>>
      /\ Blocks(doc)[i].lines[1].spans # <<>>
      /\ WordCount(FirstSpan(i, 1).text) >= 4
      /\ WordCount(FirstSpan(i, 1).text) <= 14 } }

\* C9 (amended): every line of an upper-half block whose first span has more
\* than 3 characters after trimming and fewer than 15 words
LinesOfFourChars ==
  { ij \in UNION { { <<i, j>> : j \in DOMAIN Blocks(doc)[i].lines } : i \in UpperHalfBlocks } :
      /\ Blocks(doc)[ij[1]].lines[ij[2]].spans # <<>>
      /\ Len(Trimmed(FirstSpan(ij[1], ij[2]).text)) > 3
      /\ WordCount(FirstSpan(ij[1], ij[2]).text) < 15 }

Earlier(a, b) == a[1] < b[1] \/ (a[1] = b[1] /\ a[2] < b[2])

\* the title is the first of the most prominent texts of Q, the base name if Q is empty
TitleChosenFrom(Q) ==
  IF Q = {} THEN title = doc.basename
  ELSE \E a \in Q :
         /\ title = Trimmed(FirstSpan(a[1], a[2]).text)
         /\ \A b \in Q : Prominence(b[1], b[2]) <= Prominence(a[1], a[2])
         /\ \A b \in Q : Earlier(b, a) => Prominence(b[1], b[2]) < Prominence(a[1], a[2])

\* the title resolver has just run
TitleResolved == pc = "toc"

\* C9 (as stated): without a metadata title, the title is the most prominent
\* first line of an upper-half first-page block whose text has 4 to 14 words,
\* the base name iff there is none; a text of fewer than 4 words is never chosen.
C9_Original ==
  (TitleResolved /\ NoMetadataTitle) =>
    /\ TitleChosenFrom(FirstLinesOfFourWords)
    /\ title # doc.basename => WordCount(title) >= 4

\* C9 (amended): without a metadata title, the title is the trimmed text of the
\* first span of any line (not only the first) of an upper-half first-page text
\* block, provided it has more than 3 characters and fewer than 15 words,
\* scored size + 2 if bold, the first of the maxima winning; the base name
\* iff no such text exists.
C9_TitleFromAnyLine ==
  (TitleResolved /\ NoMetadataTitle) => TitleChosenFrom(LinesOfFourChars)

C9_Witness ==
  /\ TitleResolved /\ NoMetadataTitle
  /\ title = <<"A","n","d"," ","M","o","r","e"," ","W","o","r","d","s"," ","H","e","r","e",".">>
  /\ Cardinality(LinesOfFourChars) >= 3

\* C10: extract_outline always returns: {error} exactly when the open fails,
\* {"Untitled", []} for a document without pages, a well-formed {title,
\* outline} otherwise; it never raises.
C10_Total ==
  Done =>
    /\ result.kind \in {"ok", "error"}
    /\ result.kind = "error" <=> ~doc.openable
    /\ (doc.openable /\ doc.page_count = 0) => result = Returned(Untitled, <<>>)
    /\ result.kind = "ok" =>
         \A k \in DOMAIN result.outline : result.outline[k].level \in {"H1", "H2", "H3"}

====
